---- MODULE Spec2Model ----
(***************************************************************************)
(* PngMe: the chunk layer of the PNG container format.                     *)
(*                                                                         *)
(*   src/src/chunk_type.rs   ChunkType  (4-byte tag, property bits)        *)
(*   src/src/chunk.rs        Chunk      (length | type | data | crc)       *)
(*   src/src/main.rs         main       (encode / decode / remove / print) *)
(*                                                                         *)
(* Bytes are the integers 0..255 and byte strings are sequences of them.   *)
(* Rust indexes from 0 and TLA+ sequences from 1: bytes[i] of the source   *)
(* is bytes[i+1] here.  A u32 is kept as its two 16-bit halves             *)
(* [hi |-> 0..65535, lo |-> 0..65535] (value hi * 65536 + lo), so that the *)
(* whole u32 range is representable and the conversions to and from the    *)
(* four big-endian bytes are real computations.  usize is 64 bits wide,    *)
(* so `len as usize + 8` never wraps.                                      *)
(*                                                                         *)
(* A Result is a record with kind "ok" or "err"; a panic (index or slice   *)
(* out of range) is the third outcome, kind "panic".                       *)
(***************************************************************************)
EXTENDS Integers, Sequences, FiniteSets, TLC

VARIABLES
    tyIn,      \* ChunkType: the last input, [via, val]
    tyRes,     \* ChunkType: the Result of the last from_str / try_from
    tyShown,   \* ChunkType: the outcome of to_string() on the tag of tyRes
    chunk,     \* Chunk: the chunk built by Chunk::new
    buf,       \* Chunk: the byte buffer handed to Chunk::try_from
    origin,    \* Chunk: how buf was derived, [op, at]
    res,       \* Chunk: the Result of Chunk::try_from(buf)
    cmd,       \* main: the parsed command line
    pc,        \* main: position in the running command
    fs,        \* main: the files on disk, path -> [exists, data]
    fs0,       \* main: the files on disk when the command started
    rbytes,    \* main: the local `bytes`
    png,       \* main: the local `png`
    ctype,     \* main: the local `chunk_type` of encode
    steps,     \* main: the steps that have succeeded so far, in order
    writes,    \* main: number of fs::write calls made by the command
    outcome    \* main: how the command ended, [kind, step]

tyVars    == <<tyIn, tyRes, tyShown>>
chunkVars == <<chunk, buf, origin, res>>
cliVars   == <<cmd, pc, fs, fs0, rbytes, png, ctype, steps, writes, outcome>>
vars      == <<tyIn, tyRes, tyShown, chunk, buf, origin, res,
               cmd, pc, fs, fs0, rbytes, png, ctype, steps, writes, outcome>>

----------------------------------------------------------------------------
(* Bytes, bits and u32                                                     *)

Byte == 0..255

\* Bitwise operations go nibble by nibble through 16 x 16 tables
XorBit(p, q) == (p + q) % 2
AndBit(p, q) == p * q

Nibble(F(_, _), a, b) ==
      F(a % 2, b % 2)
    + 2 * F((a \div 2) % 2, (b \div 2) % 2)
    + 4 * F((a \div 4) % 2, (b \div 4) % 2)
    + 8 * F(a \div 8, b \div 8)

Xor4 == [a \in 0..15, b \in 0..15 |-> Nibble(XorBit, a, b)]
And4 == [a \in 0..15, b \in 0..15 |-> Nibble(AndBit, a, b)]

\* a & b for bytes
BitAnd(a, b) == And4[a % 16, b % 16] + 16 * And4[a \div 16, b \div 16]

\* a ^ b for values below 2^16
BitXor(a, b) ==
      Xor4[a % 16, b % 16]
    + 16 * Xor4[(a \div 16) % 16, (b \div 16) % 16]
    + 256 * Xor4[(a \div 256) % 16, (b \div 256) % 16]
    + 4096 * Xor4[a \div 4096, b \div 4096]

U32(h, l) == [hi |-> h, lo |-> l]

\* `n as u32` for a usize n (truncation to 32 bits)
AsU32(n) == U32((n \div 65536) % 65536, n % 65536)

\* u32::to_be_bytes
to_be_bytes(x) == <<x.hi \div 256, x.hi % 256, x.lo \div 256, x.lo % 256>>

\* u32::from_be_bytes
from_be_bytes(b) == U32(b[1] * 256 + b[2], b[3] * 256 + b[4])

U32Xor(x, y) == U32(BitXor(x.hi, y.hi), BitXor(x.lo, y.lo))

\* x >> k for k in 1..15
U32Shr(x, k) ==
    LET p == 2 ^ k
    IN  U32(x.hi \div p, (x.lo \div p) + (x.hi % p) * (65536 \div p))

\* `len as usize + 8 <= n` for a u32 len and a buffer length n
FitsWithin(len, extra, n) == len.hi = 0 /\ len.lo + extra <= n

----------------------------------------------------------------------------
(* CRC-32/ISO-HDLC: poly 0x04C11DB7 reflected (0xEDB88320), init and       *)
(* xorout 0xFFFFFFFF, input and output reflected; computed bytewise        *)
(* through the 256-entry table, as crc::Crc::<u32>::checksum does.         *)

CrcPoly == U32(60856, 33568)      \* 0xEDB8 8320
CrcOnes == U32(65535, 65535)      \* 0xFFFF FFFF

\* One bit of the reflected division
CrcShift(x) ==
    IF x.lo % 2 = 1 THEN U32Xor(U32Shr(x, 1), CrcPoly) ELSE U32Shr(x, 1)

RECURSIVE CrcBits(_, _)
CrcBits(x, k) ==
    IF k = 0 THEN x
    ELSE LET y == CrcShift(x)
         IN  IF y.hi >= 0 THEN CrcBits(y, k - 1) ELSE y

CrcTable == [i \in Byte |-> CrcBits(U32(0, i), 8)]

CrcUpdate(x, byte) ==
    U32Xor(CrcTable[BitXor(x.lo % 256, byte)], U32Shr(x, 8))

\* The register after the bytes of b at positions lo..hi, in order, from x.
\* The halves are folded one after the other: the test on `left` has the
\* first half evaluated before the second is entered.
RECURSIVE CrcFold(_, _, _, _)
CrcFold(x, b, lo, hi) ==
    IF lo > hi THEN x
    ELSE IF lo = hi THEN CrcUpdate(x, b[lo])
    ELSE LET mid  == (lo + hi) \div 2
             left == CrcFold(x, b, lo, mid)
         IN  IF left.hi >= 0 THEN CrcFold(left, b, mid + 1, hi) ELSE left

\* Mutant: the register started from zero (CRC-32 without its init value)
Crc32_init_zero(b) == U32Xor(CrcFold(U32(0, 0), b, 1, Len(b)), CrcOnes)

Crc32(b) == U32Xor(CrcFold(CrcOnes, b, 1, Len(b)), CrcOnes)

----------------------------------------------------------------------------
(* Results                                                                 *)

NoBytes == <<>>

\* ChunkType { bytes: [u8; 4] }
ChunkType(b) == [bytes |-> b]

NoTag == ChunkType(NoBytes)

TagOk(t)     == [kind |-> "ok",    tag |-> t,     why |-> "-"]
TagErr(w)    == [kind |-> "err",   tag |-> NoTag, why |-> w]
TagPanic(w)  == [kind |-> "panic", tag |-> NoTag, why |-> w]
TagNone      == [kind |-> "none",  tag |-> NoTag, why |-> "-"]

TextOk(s)    == [kind |-> "ok",    text |-> s]
TextErr      == [kind |-> "err",   text |-> NoBytes]
TextPanic    == [kind |-> "panic", text |-> NoBytes]
TextNone     == [kind |-> "none",  text |-> NoBytes]

----------------------------------------------------------------------------
(* chunk_type.rs                                                           *)

\* u8::is_ascii_alphabetic: 'A'..='Z' | 'a'..='z'
is_ascii_alphabetic(ch) == (65 <= ch /\ ch <= 90) \/ (97 <= ch /\ ch <= 122)

\* ChunkType::bytes
bytes(t) == t.bytes

is_critical(t) == BitAnd(t.bytes[1], 32) = 0

is_public(t) == BitAnd(t.bytes[2], 32) = 0

is_reserved_bit_valid(t) == BitAnd(t.bytes[3], 32) = 0

is_safe_to_copy(t) == BitAnd(t.bytes[4], 32) # 0

\* Mutant: validity also demands four ASCII letters
is_valid_alphabetic(t) ==
    is_reserved_bit_valid(t) /\ \A i \in 1..4 : is_ascii_alphabetic(t.bytes[i])

is_valid(t) == is_reserved_bit_valid(t)

\* impl TryFrom<[u8; 4]> for ChunkType
ChunkType_try_from(value) == TagOk(ChunkType(value))

\* The loop of from_str over s.as_bytes().iter().enumerate(), at 1-based
\* position i with the tag built so far in b.  chunktype.bytes[i] = *ch
\* indexes a [u8; 4]: at the fifth byte the index is out of bounds.
RECURSIVE from_str_loop(_, _, _)
from_str_loop(s, i, b) ==
    IF i > Len(s) THEN TagOk(ChunkType(b))
    ELSE IF ~is_ascii_alphabetic(s[i]) THEN TagErr("invalid byte")
    ELSE IF i > 4 THEN TagPanic("index out of bounds")
    ELSE from_str_loop(s, i + 1, [b EXCEPT ![i] = s[i]])

\* Mutant: the loop without enumerate(), every byte stored in bytes[0]
ChunkType_from_str_first_slot(s) ==
    IF \E i \in 1..Len(s) : ~is_ascii_alphabetic(s[i]) THEN TagErr("invalid byte")
    ELSE IF Len(s) > 4 THEN TagPanic("index out of bounds")
    ELSE IF Len(s) = 0 THEN TagOk(ChunkType(<<0, 0, 0, 0>>))
    ELSE TagOk(ChunkType(<<s[Len(s)], 0, 0, 0>>))

\* impl FromStr for ChunkType
ChunkType_from_str(s) == from_str_loop(s, 1, <<0, 0, 0, 0>>)

\* A continuation byte 0x80..=0xBF, or the narrower range lo..hi
Cont(b, i, lo, hi) == i <= Len(b) /\ lo <= b[i] /\ b[i] <= hi

\* core::str::from_utf8 succeeds on b from position i on
RECURSIVE Utf8From(_, _)
Utf8From(b, i) ==
    IF i > Len(b) THEN TRUE
    ELSE LET c == b[i] IN
      IF c < 128 THEN Utf8From(b, i + 1)
      ELSE IF 194 <= c /\ c <= 223
        THEN Cont(b, i + 1, 128, 191) /\ Utf8From(b, i + 2)
      ELSE IF 224 <= c /\ c <= 239
        THEN /\ Cont(b, i + 1, IF c = 224 THEN 160 ELSE 128,
                               IF c = 237 THEN 159 ELSE 191)
             /\ Cont(b, i + 2, 128, 191)
             /\ Utf8From(b, i + 3)
      ELSE IF 240 <= c /\ c <= 244
        THEN /\ Cont(b, i + 1, IF c = 240 THEN 144 ELSE 128,
                               IF c = 244 THEN 143 ELSE 191)
             /\ Cont(b, i + 2, 128, 191)
             /\ Cont(b, i + 3, 128, 191)
             /\ Utf8From(b, i + 4)
      ELSE FALSE

from_utf8_ok(b) == Utf8From(b, 1)

\* impl Display for ChunkType
ChunkType_fmt(t) == IF from_utf8_ok(t.bytes) THEN TextOk(t.bytes) ELSE TextErr

\* ToString::to_string: panics when the Display implementation returns Err
ChunkType_to_string(t) ==
    IF ChunkType_fmt(t).kind = "ok" THEN ChunkType_fmt(t) ELSE TextPanic

----------------------------------------------------------------------------
(* Inputs of the tag operations                                            *)

MaxStrLen == 5

\* 'R' 'u' 'S' 't' '1'
StrBytes == {82, 117, 83, 116, 49}

\* "RuSt" "Rust" "Ru1t" "ruSt" "RuST" "RUSt" of the tests of chunk_type.rs
TestStrings ==
    { <<82, 117, 83, 116>>, <<82, 117, 115, 116>>, <<82, 117, 49, 116>>,
      <<114, 117, 83, 116>>, <<82, 117, 83, 84>>, <<82, 85, 83, 116>> }

Strings == TestStrings \cup UNION {[1..n -> StrBytes] : n \in 0..MaxStrLen}

\* NUL, space, 'R', 'u', 0x9F, 0xFF
TagBytes == {0, 32, 82, 117, 159, 255}

ByteArrays4 == [1..4 -> TagBytes]

WellFormedTypeText(s) ==
    Len(s) = 4 /\ \A i \in 1..Len(s) : is_ascii_alphabetic(s[i])

----------------------------------------------------------------------------
(* Idle values of the three groups of variables                            *)

\* No chunk yet: told apart from every real chunk by its empty tag
NoChunk == [length |-> U32(0, 0), chunktype |-> NoTag, data |-> NoBytes,
            crc |-> U32(0, 0)]

ChunkOk(c)    == [kind |-> "ok",    chunk |-> c,       why |-> "-"]
ChunkErr(w)   == [kind |-> "err",   chunk |-> NoChunk, why |-> w]
ChunkPanic(w) == [kind |-> "panic", chunk |-> NoChunk, why |-> w]
ChunkNone     == [kind |-> "none",  chunk |-> NoChunk, why |-> "-"]

TypeIdle ==
    /\ tyIn = [via |-> "none", val |-> NoBytes]
    /\ tyRes = TagNone
    /\ tyShown = TextNone

ChunkIdle ==
    /\ chunk = NoChunk
    /\ buf = NoBytes
    /\ origin = [op |-> "none", at |-> 0]
    /\ res = ChunkNone

----------------------------------------------------------------------------
(* The tag operations as a state machine                                   *)

TyFromStr(s) ==
    /\ tyIn.via = "none"
    /\ tyIn' = [via |-> "from_str", val |-> s]
    /\ tyRes' = ChunkType_from_str(s)
    /\ tyShown' = TextNone
    /\ UNCHANGED <<chunkVars, cliVars>>

TyTryFrom(b) ==
    /\ tyIn.via = "none"
    /\ tyIn' = [via |-> "try_from", val |-> b]
    /\ tyRes' = ChunkType_try_from(b)
    /\ tyShown' = TextNone
    /\ UNCHANGED <<chunkVars, cliVars>>

TyToString ==
    /\ tyRes.kind = "ok"
    /\ tyShown = TextNone
    /\ tyShown' = ChunkType_to_string(tyRes.tag)
    /\ UNCHANGED <<tyIn, tyRes, chunkVars, cliVars>>

----------------------------------------------------------------------------
(* chunk.rs                                                                *)

\* Chunk { length, chunktype, data, crc }
Chunk(l, t, d, c) == [length |-> l, chunktype |-> t, data |-> d, crc |-> c]

\* Mutant: the checksum taken over the payload alone
Chunk_new_crc_of_data(chunk_type, data) ==
    Chunk(AsU32(Len(data)), chunk_type, data, Crc32(data))

\* Chunk::new
Chunk_new(chunk_type, data) ==
    LET temp == bytes(chunk_type) \o data
        crc  == Crc32(temp)
    IN  Chunk(AsU32(Len(data)), chunk_type, data, crc)

\* Mutant: the length written with to_le_bytes
as_bytes_le(c) ==
    <<c.length.lo % 256, c.length.lo \div 256,
      c.length.hi % 256, c.length.hi \div 256>>
    \o bytes(c.chunktype) \o c.data \o to_be_bytes(c.crc)

\* Chunk::as_bytes
as_bytes(c) ==
    to_be_bytes(c.length) \o bytes(c.chunktype) \o c.data \o to_be_bytes(c.crc)

\* value[from..to] of the source (0-based, `to` excluded)
Slice(value, from, to) == SubSeq(value, from + 1, to)

\* BufReader::read_exact of n bytes with the reader at offset pos succeeds
read_exact_ok(value, pos, n) == pos + n <= Len(value)

\* Mutant: the payload taken up to the last four bytes of the buffer
chunk_data_to_end(value, n) == Slice(value, 8, Len(value) - 4)

\* The payload: Vec::try_from(&value[8..len as usize + 8])
chunk_data(value, n) == Slice(value, 8, n + 8)

\* The checksum recomputed over value[4..len as usize + 8]
valid_crc_of(value, n) == Crc32(Slice(value, 4, n + 8))

\* Mutant: only the low halves of the two checksums compared
crc_differs_low_half(crc, valid_crc) == crc.lo # valid_crc.lo

\* if crc != valid_crc
crc_differs(crc, valid_crc) == crc # valid_crc

\* impl TryFrom<&[u8]> for Chunk.  The reader and the slices value[8..len+8],
\* value[4..len+8] go over the same buffer; the slice panics when len + 8
\* exceeds the buffer's length, before the reader can report the shortage.
Chunk_try_from(value) ==
    IF ~read_exact_ok(value, 0, 4) THEN ChunkErr("eof")
    ELSE LET len == from_be_bytes(Slice(value, 0, 4)) IN
    IF ~read_exact_ok(value, 4, 4) THEN ChunkErr("eof")
    ELSE LET chunk_type == ChunkType_try_from(Slice(value, 4, 8)).tag IN
    IF ~FitsWithin(len, 8, Len(value)) THEN ChunkPanic("slice out of range")
    ELSE LET n    == len.lo
             data == chunk_data(value, n) IN
    IF ~read_exact_ok(value, 8 + n, 4) THEN ChunkErr("eof")
    ELSE LET crc       == from_be_bytes(Slice(value, 8 + n, 12 + n))
             valid_crc == valid_crc_of(value, n) IN
    IF crc_differs(crc, valid_crc) THEN ChunkErr("crc")
    ELSE ChunkOk(Chunk(len, chunk_type, data, crc))

----------------------------------------------------------------------------
(* Inputs of the chunk operations                                          *)

MaxData == 2
MaxExtra == 2

\* NUL, 'A', 0xFF
DataBytes == {0, 65, 255}

\* "This is where your secret message will be!" of the tests of chunk.rs
TestMessage ==
    << 84, 104, 105, 115,  32, 105, 115,  32, 119, 104, 101, 114, 101,  32,
      121, 111, 117, 114,  32, 115, 101,  99, 114, 101, 116,  32, 109, 101,
      115, 115,  97, 103, 101,  32, 119, 105, 108, 108,  32,  98, 101,  33>>

\* "RuSt"
RuSt == <<82, 117, 83, 116>>

Payloads == {TestMessage} \cup UNION {[1..n -> DataBytes] : n \in 0..MaxData}

ChunkTags == {RuSt, <<0, 0, 0, 0>>, <<255, 128, 10, 65>>}

Extras == UNION {[1..n -> DataBytes] : n \in 1..MaxExtra}

\* b with bit i flipped; bit 0 is the lowest bit of the first byte
FlipBit(b, i) ==
    [b EXCEPT ![(i \div 8) + 1] = BitXor(b[(i \div 8) + 1], 2 ^ (i % 8))]

----------------------------------------------------------------------------
(* The chunk operations as a state machine                                 *)

ChNew(t, d) ==
    /\ chunk = NoChunk
    /\ chunk' = Chunk_new(ChunkType(t), d)
    /\ buf' = NoBytes
    /\ origin' = [op |-> "none", at |-> 0]
    /\ res' = ChunkNone
    /\ UNCHANGED <<tyVars, cliVars>>

ChAsBytes ==
    /\ chunk # NoChunk
    /\ origin.op = "none"
    /\ buf' = as_bytes(chunk)
    /\ origin' = [op |-> "as_bytes", at |-> 0]
    /\ UNCHANGED <<chunk, res, tyVars, cliVars>>

\* The buffer damaged or extended on its way to the decoder
ChFlipBit(i) ==
    /\ origin.op = "as_bytes"
    /\ res = ChunkNone
    /\ buf' = FlipBit(buf, i)
    /\ origin' = [op |-> "flip", at |-> i]
    /\ UNCHANGED <<chunk, res, tyVars, cliVars>>

ChTruncate(n) ==
    /\ origin.op = "as_bytes"
    /\ res = ChunkNone
    /\ buf' = SubSeq(buf, 1, n)
    /\ origin' = [op |-> "truncate", at |-> n]
    /\ UNCHANGED <<chunk, res, tyVars, cliVars>>

ChExtend(x) ==
    /\ origin.op = "as_bytes"
    /\ res = ChunkNone
    /\ buf' = buf \o x
    /\ origin' = [op |-> "extend", at |-> Len(buf)]
    /\ UNCHANGED <<chunk, res, tyVars, cliVars>>

ChDecode ==
    /\ origin.op # "none"
    /\ res = ChunkNone
    /\ res' = Chunk_try_from(buf)
    /\ UNCHANGED <<chunk, buf, origin, tyVars, cliVars>>

----------------------------------------------------------------------------
(* png.rs (Png), after its specification: an 8-byte signature followed by  *)
(* chunks; decoding checks the signature and decodes chunk after chunk     *)
(* until the buffer is exhausted, propagating the first failure.           *)

Signature == <<137, 80, 78, 71, 13, 10, 26, 10>>

Png(cs) == [chunks |-> cs]

NoPng == Png(<<>>)

PngOk(p)    == [kind |-> "ok",    png |-> p,     why |-> "-"]
PngErr(w)   == [kind |-> "err",   png |-> NoPng, why |-> w]
PngPanic(w) == [kind |-> "panic", png |-> NoPng, why |-> w]

RECURSIVE png_chunks(_, _, _)
png_chunks(value, pos, acc) ==
    IF pos >= Len(value) THEN PngOk(Png(acc))
    ELSE LET r == Chunk_try_from(Slice(value, pos, Len(value))) IN
         IF r.kind = "err" THEN PngErr(r.why)
         ELSE IF r.kind = "panic" THEN PngPanic(r.why)
         ELSE png_chunks(value, pos + 12 + r.chunk.length.lo,
                         Append(acc, r.chunk))

Png_try_from(value) ==
    IF Len(value) < 8 \/ Slice(value, 0, 8) # Signature
    THEN PngErr("BadSignature")
    ELSE png_chunks(value, 8, <<>>)

Png_append_chunk(p, c) == Png(Append(p.chunks, c))

\* The chunks of p whose type renders as the text t, by position
Matching(p, t) ==
    {i \in 1..Len(p.chunks) :
        ChunkType_fmt(p.chunks[i].chunktype) = TextOk(t)}

First(S) == CHOOSE i \in S : \A j \in S : i <= j

Png_remove_first_chunk(p, t) ==
    IF Matching(p, t) = {} THEN PngErr("NotFound")
    ELSE LET k == First(Matching(p, t)) IN
         PngOk(Png(SubSeq(p.chunks, 1, k - 1)
                   \o SubSeq(p.chunks, k + 1, Len(p.chunks))))

Png_chunk_by_type(p, t) ==
    IF Matching(p, t) = {} THEN ChunkNone
    ELSE ChunkOk(p.chunks[First(Matching(p, t))])

RECURSIVE chunks_bytes(_, _)
chunks_bytes(cs, i) ==
    IF i > Len(cs) THEN <<>> ELSE as_bytes(cs[i]) \o chunks_bytes(cs, i + 1)

Png_as_bytes(p) == Signature \o chunks_bytes(p.chunks, 1)

\* Chunk::data_as_string succeeds
data_as_string_ok(c) == from_utf8_ok(c.data)

----------------------------------------------------------------------------
(* Inputs of main: the command line and the files on disk                  *)

NoFile == [exists |-> FALSE, data |-> NoBytes]
File(b) == [exists |-> TRUE, data |-> b]

ChunkA == Chunk_new(ChunkType(RuSt), <<65>>)
ChunkB == Chunk_new(ChunkType(<<114, 117, 83, 116>>), <<0, 255>>)

InputFiles ==
    { NoFile,
      File(<<1, 2, 3>>),
      File(Signature),
      File(Signature \o as_bytes(ChunkA)),
      File(Signature \o as_bytes(ChunkA) \o as_bytes(ChunkB) \o as_bytes(ChunkA)),
      File(Signature \o as_bytes(ChunkB)),
      File(Signature \o FlipBit(as_bytes(ChunkA), 64)),
      File(Signature \o as_bytes(ChunkA) \o SubSeq(as_bytes(ChunkB), 1, 13)),
      File(Signature \o as_bytes(ChunkA) \o SubSeq(as_bytes(ChunkB), 1, 9)) }

OutputFiles == {NoFile, File(<<7>>)}

\* "RuSt" "ruSt" "Ru1t" "Ru" "RuStX"
TypeArgs ==
    { RuSt, <<114, 117, 83, 116>>, <<82, 117, 49, 116>>, <<82, 117>>,
      <<82, 117, 83, 116, 88>> }

\* "" "A"
MessageArgs == {<<>>, <<65>>}

Cmd(op, t, m, o) ==
    [op |-> op, file |-> "in.png", chunk_type |-> t, message |-> m,
     output_file |-> o]

\* output_file: "-" is None
Commands ==
    {Cmd("encode", t, m, o) : t \in TypeArgs, m \in MessageArgs,
                              o \in {"-", "out.png"}}
    \cup {Cmd(op, t, <<>>, "-") : op \in {"decode", "remove"}, t \in TypeArgs}
    \cup {Cmd("print", <<>>, <<>>, "-")}

Running == [kind |-> "running", step |-> "-"]

CliIdle ==
    /\ cmd = Cmd("none", <<>>, <<>>, "-")
    /\ pc = "done"
    /\ fs = [p \in {"in.png", "out.png"} |-> NoFile]
    /\ fs0 = fs
    /\ rbytes = NoBytes
    /\ png = NoPng
    /\ ctype = NoTag
    /\ steps = <<>>
    /\ writes = 0
    /\ outcome = Running

----------------------------------------------------------------------------
(* main.rs: one command, step by step.  Text printed to stdout is not      *)
(* part of the state.                                                      *)

End(kind, step) ==
    /\ pc' = "done"
    /\ outcome' = [kind |-> kind, step |-> step]

Pass(step, next) ==
    /\ pc' = next
    /\ steps' = Append(steps, step)
    /\ UNCHANGED outcome

AfterDecode ==
    CASE cmd.op = "encode" -> "append"
      [] cmd.op = "decode" -> "find"
      [] cmd.op = "remove" -> "remove"
      [] cmd.op = "print"  -> "print"

\* ChunkType::from_str(chunk_type)?
MainParseType ==
    /\ pc = "parse"
    /\ LET r == ChunkType_from_str(cmd.chunk_type) IN
       IF r.kind = "ok"
       THEN Pass("parse", "read") /\ ctype' = r.tag
       ELSE End(r.kind, "parse") /\ UNCHANGED <<ctype, steps>>
    /\ UNCHANGED <<cmd, fs, fs0, rbytes, png, writes, tyVars, chunkVars>>

\* fs::read(file)?
MainRead ==
    /\ pc = "read"
    /\ IF fs[cmd.file].exists
       THEN Pass("read", "decode") /\ rbytes' = fs[cmd.file].data
       ELSE End("err", "read") /\ UNCHANGED <<rbytes, steps>>
    /\ UNCHANGED <<cmd, fs, fs0, png, ctype, writes, tyVars, chunkVars>>

\* Png::try_from(bytes.as_ref())?
MainPngDecode ==
    /\ pc = "decode"
    /\ LET r == Png_try_from(rbytes) IN
       IF r.kind = "ok"
       THEN Pass("decode", AfterDecode) /\ png' = r.png
       ELSE End(r.kind, "decode") /\ UNCHANGED <<png, steps>>
    /\ UNCHANGED <<cmd, fs, fs0, rbytes, ctype, writes, tyVars, chunkVars>>

\* Chunk::new(chunk_type, message.clone().into_bytes()); png.append_chunk(chunk)
MainAppend ==
    /\ pc = "append"
    /\ png' = Png_append_chunk(png, Chunk_new(ctype, cmd.message))
    /\ Pass("append", "write")
    /\ UNCHANGED <<cmd, fs, fs0, rbytes, ctype, writes, tyVars, chunkVars>>

\* Mutant: the error of remove_first_chunk dropped, the write still made
MainRemove_ignoring_error ==
    /\ pc = "remove"
    /\ LET r == Png_remove_first_chunk(png, cmd.chunk_type) IN
       IF r.kind = "ok"
       THEN Pass("remove", "write") /\ png' = r.png
       ELSE pc' = "write" /\ UNCHANGED <<png, steps, outcome>>
    /\ UNCHANGED <<cmd, fs, fs0, rbytes, ctype, writes, tyVars, chunkVars>>

\* png.remove_first_chunk(chunk_type)?
MainRemove ==
    /\ pc = "remove"
    /\ LET r == Png_remove_first_chunk(png, cmd.chunk_type) IN
       IF r.kind = "ok"
       THEN Pass("remove", "write") /\ png' = r.png
       ELSE End(r.kind, "remove") /\ UNCHANGED <<png, steps>>
    /\ UNCHANGED <<cmd, fs, fs0, rbytes, ctype, writes, tyVars, chunkVars>>

\* if let Some(chunk) = png.chunk_by_type(chunk_type) { chunk.data_as_string()? }
MainFind ==
    /\ pc = "find"
    /\ LET r == Png_chunk_by_type(png, cmd.chunk_type) IN
       IF r.kind = "ok" /\ ~data_as_string_ok(r.chunk)
       THEN End("err", "find") /\ UNCHANGED steps
       ELSE End("ok", "-") /\ steps' = Append(steps, "find")
    /\ UNCHANGED <<cmd, fs, fs0, rbytes, png, ctype, writes, tyVars, chunkVars>>

\* println!("{}", png)
MainPrint ==
    /\ pc = "print"
    /\ End("ok", "-")
    /\ steps' = Append(steps, "print")
    /\ UNCHANGED <<cmd, fs, fs0, rbytes, png, ctype, writes, tyVars, chunkVars>>

\* The path written: output_file when given (encode), else file
Target == IF cmd.output_file # "-" THEN cmd.output_file ELSE cmd.file

\* fs::write(target, png.as_bytes())?  The call creates or truncates the
\* file and then writes; when it fails the file is as it was (it could not
\* be opened) or left empty (it was opened and the write failed).
MainWrite ==
    /\ pc = "write"
    /\ writes' = writes + 1
    /\ \/ /\ fs' = [fs EXCEPT ![Target] = File(Png_as_bytes(png))]
          /\ End("ok", "-")
          /\ steps' = Append(steps, "write")
       \/ /\ fs' \in {fs, [fs EXCEPT ![Target] = File(NoBytes)]}
          /\ End("err", "write")
          /\ UNCHANGED steps
    /\ UNCHANGED <<cmd, fs0, rbytes, png, ctype, tyVars, chunkVars>>

----------------------------------------------------------------------------
(* Specifications                                                          *)

\* The chunk codec: Chunk::new, as_bytes, try_from
Init == TypeIdle /\ ChunkIdle /\ CliIdle

Next ==
    \/ \E t \in ChunkTags, d \in Payloads : ChNew(t, d)
    \/ ChAsBytes
    \/ \E i \in 0..(8 * Len(buf) - 1) : ChFlipBit(i)
    \/ \E n \in 0..(Len(buf) - 1) : ChTruncate(n)
    \/ \E x \in Extras : ChExtend(x)
    \/ ChDecode

Spec == Init /\ [][Next]_vars

\* The type tag: from_str, try_from, to_string
TypeNext ==
    \/ \E s \in Strings : TyFromStr(s)
    \/ \E b \in ByteArrays4 : TyTryFrom(b)
    \/ TyToString

TypeSpec == Init /\ [][TypeNext]_vars

\* main: one command on one disk
CliInit ==
    /\ TypeIdle
    /\ ChunkIdle
    /\ cmd \in Commands
    /\ pc = (IF cmd.op = "encode" THEN "parse" ELSE "read")
    /\ \E f \in InputFiles, o \in OutputFiles :
          fs = [p \in {"in.png", "out.png"} |-> IF p = "in.png" THEN f ELSE o]
    /\ fs0 = fs
    /\ rbytes = NoBytes
    /\ png = NoPng
    /\ ctype = NoTag
    /\ steps = <<>>
    /\ writes = 0
    /\ outcome = Running

CliNext ==
    \/ MainParseType
    \/ MainRead
    \/ MainPngDecode
    \/ MainAppend
    \/ MainRemove
    \/ MainFind
    \/ MainPrint
    \/ MainWrite

CliSpec == CliInit /\ [][CliNext]_vars

----------------------------------------------------------------------------
(* Properties of the type tag (TypeSpec)                                   *)

Bit5(x) == (x \div 32) % 2

\* C4 (as claimed): from_str succeeds only on exactly four ASCII letters and
\* returns an error value for every other string.
FromStrOnlyFourLetters ==
    tyIn.via = "from_str" =>
        tyRes.kind = (IF WellFormedTypeText(tyIn.val) THEN "ok" ELSE "err")

\* C6: each property query reads bit 5 of one byte of the tag (clear for
\* critical, public and reserved-bit-valid, set for safe-to-copy), and
\* is_valid is is_reserved_bit_valid, whatever the other bytes are.
PropertyBits ==
    tyRes.kind = "ok" =>
        LET t == tyRes.tag
            b == bytes(t)
        IN  /\ is_critical(t) <=> Bit5(b[1]) = 0
            /\ is_public(t) <=> Bit5(b[2]) = 0
            /\ is_reserved_bit_valid(t) <=> Bit5(b[3]) = 0
            /\ is_safe_to_copy(t) <=> Bit5(b[4]) = 1
            /\ is_valid(t) <=> Bit5(b[3]) = 0

\* A tag of four non-letters, built from raw bytes, that is valid although
\* it is neither critical nor public nor safe to copy
PropertyBitsWitness ==
    /\ tyIn.via = "try_from"
    /\ tyRes = TagOk(ChunkType(<<32, 255, 0, 159>>))
    /\ is_valid(tyRes.tag)
    /\ ~is_critical(tyRes.tag)
    /\ ~is_public(tyRes.tag)
    /\ ~is_safe_to_copy(tyRes.tag)

\* C8: for a string of exactly four ASCII letters from_str succeeds, gives
\* the tag try_from gives for the same four bytes, bytes() returns them, and
\* to_string() renders the string again.
TypeTextRoundTrip ==
    (tyIn.via = "from_str" /\ WellFormedTypeText(tyIn.val)) =>
        /\ tyRes.kind = "ok"
        /\ tyRes = ChunkType_try_from(tyIn.val)
        /\ bytes(tyRes.tag) = tyIn.val
        /\ tyShown.kind # "none" => tyShown = TextOk(tyIn.val)

TypeTextRoundTripWitness ==
    /\ tyIn = [via |-> "from_str", val |-> RuSt]
    /\ tyRes.kind = "ok"
    /\ tyShown = TextOk(RuSt)

----------------------------------------------------------------------------
(* Properties of the chunk codec (Spec)                                    *)

\* The length declared in the first four bytes of b, as a pair of halves
DeclaredHi(b) == b[1] * 256 + b[2]
DeclaredLo(b) == b[3] * 256 + b[4]

\* b holds all 12 + declared bytes of a chunk record
Complete(b) ==
    /\ Len(b) >= 4
    /\ DeclaredHi(b) = 0
    /\ Len(b) >= 12 + DeclaredLo(b)

\* Bit i of the encoded chunk lies in its type or its payload
InTypeOrPayload(i) == 32 <= i /\ i < 64 + 8 * Len(chunk.data)

\* C1: decoding the bytes of a chunk built by Chunk::new succeeds and gives
\* the same length, type bytes, payload and checksum.
ChunkRoundTrip ==
    (origin.op = "as_bytes" /\ res.kind # "none") =>
        /\ res.kind = "ok"
        /\ res.chunk.length = chunk.length
        /\ bytes(res.chunk.chunktype) = bytes(chunk.chunktype)
        /\ res.chunk.data = chunk.data
        /\ res.chunk.crc = chunk.crc

ChunkRoundTripWitness ==
    /\ origin.op = "as_bytes"
    /\ res.kind = "ok"
    /\ chunk.data = TestMessage
    /\ bytes(chunk.chunktype) = <<255, 128, 10, 65>>

\* C2 (as claimed): decoding a buffer with fewer bytes than 12 plus the
\* length it declares returns an error and never panics.
TruncatedDecodeIsError ==
    (res.kind # "none" /\ ~Complete(buf)) => res.kind = "err"

\* C3: a complete record whose trailing checksum differs from the CRC-32 of
\* its type and payload bytes is rejected with an error, and so is every
\* encoded chunk with one bit of its type or payload flipped.
ChecksumMismatchRejected ==
    /\ (res.kind # "none" /\ Complete(buf)) =>
          LET n      == DeclaredLo(buf)
              stored == U32(buf[n + 9] * 256 + buf[n + 10],
                            buf[n + 11] * 256 + buf[n + 12])
          IN  stored # Crc32(SubSeq(buf, 5, 8 + n)) => res = ChunkErr("crc")
    /\ (res.kind # "none" /\ origin.op = "flip" /\ InTypeOrPayload(origin.at))
          => res = ChunkErr("crc")

\* One bit of the type of an encoded chunk flipped, and the decode rejected
ChecksumMismatchWitness ==
    /\ origin.op = "flip"
    /\ origin.at = 40
    /\ Len(chunk.data) = MaxData
    /\ res = ChunkErr("crc")

\* C5 (as claimed): "RuSt" with the test message is a 44-byte payload, a
\* 56-byte chunk with length field 0x0000002C and checksum 2882656334.
TestVector44 ==
    (chunk = Chunk_new(ChunkType(RuSt), TestMessage) /\ origin.op = "as_bytes") =>
        /\ Len(chunk.data) = 44
        /\ Len(buf) = 56
        /\ SubSeq(buf, 1, 4) = <<0, 0, 0, 44>>
        /\ chunk.crc = U32(43985, 55374)

\* C5 (amended): "RuSt" with the test message is a 42-byte payload, a
\* 54-byte chunk with length field 0x0000002A and checksum 2882656334
\* (43985 * 65536 + 55374); every chunk built by Chunk::new has the number
\* of payload bytes as its length.
TestVector42 ==
    /\ (bytes(chunk.chunktype) = RuSt /\ chunk.data = TestMessage) =>
          /\ Len(chunk.data) = 42
          /\ chunk.length = U32(0, 42)
          /\ chunk.crc = U32(43985, 55374)
          /\ origin.op = "as_bytes" =>
                /\ Len(buf) = 54
                /\ SubSeq(buf, 1, 4) = <<0, 0, 0, 42>>
                /\ SubSeq(buf, 51, 54) = <<171, 209, 216, 78>>
    /\ chunk # NoChunk =>
          chunk.length.hi * 65536 + chunk.length.lo = Len(chunk.data)

TestVectorWitness ==
    /\ bytes(chunk.chunktype) = RuSt
    /\ chunk.data = TestMessage
    /\ origin.op = "as_bytes"
    /\ Len(buf) = 54

\* The bytes as_bytes returned are the wire form of the chunk
WireFormOf(b, c) ==
    LET n == Len(c.data)
    IN  /\ Len(b) = 12 + n
        /\ \A i \in 1..Len(b) : b[i] \in Byte
        /\ c.length.hi * 65536 + c.length.lo = n
        /\ b[1] * 256 + b[2] = c.length.hi
        /\ b[3] * 256 + b[4] = c.length.lo
        /\ \A i \in 1..4 : b[4 + i] = c.chunktype.bytes[i]
        /\ \A i \in 1..n : b[8 + i] = c.data[i]
        /\ b[n + 9] * 256 + b[n + 10] = c.crc.hi
        /\ b[n + 11] * 256 + b[n + 12] = c.crc.lo

\* C7: as_bytes returns the 4-byte big-endian length, the 4 type bytes, the
\* payload and the 4-byte big-endian checksum, 12 + length bytes in all, and
\* leaves the chunk as it was.
WireForm ==
    /\ [](origin.op = "as_bytes" => WireFormOf(buf, chunk))
    /\ [][origin'.op = "as_bytes" => chunk' = chunk]_vars

WireFormWitness ==
    /\ origin.op = "as_bytes"
    /\ res.kind = "none"
    /\ Len(chunk.data) = MaxData
    /\ Len(buf) = 12 + MaxData

\* C10: a successful decode returns the declared length, the type bytes
\* 4..8 unchecked, the payload that follows and the stored checksum, so that
\* its bytes are the first 12 + length bytes of the buffer; bytes after them
\* do not change the result.
DecodeReadsPrefix ==
    /\ res.kind = "ok" =>
          LET n == DeclaredLo(buf)
          IN  /\ res.chunk.length = U32(DeclaredHi(buf), n)
              /\ bytes(res.chunk.chunktype) = SubSeq(buf, 5, 8)
              /\ res.chunk.data = SubSeq(buf, 9, 8 + n)
              /\ to_be_bytes(res.chunk.crc) = SubSeq(buf, 9 + n, 12 + n)
              /\ as_bytes(res.chunk) = SubSeq(buf, 1, 12 + n)
    /\ (origin.op = "extend" /\ res.kind # "none") => res = ChunkOk(chunk)

\* A chunk whose type holds no letter, decoded from a buffer with bytes
\* after the record
DecodeReadsPrefixWitness ==
    /\ origin.op = "extend"
    /\ res.kind = "ok"
    /\ bytes(res.chunk.chunktype) = <<0, 0, 0, 0>>
    /\ Len(res.chunk.data) > 0
    /\ Len(buf) = 12 + Len(res.chunk.data) + MaxExtra

----------------------------------------------------------------------------
(* Properties of main (CliSpec)                                            *)

StepsBeforeWrite ==
    IF cmd.op = "encode" THEN <<"parse", "read", "decode", "append">>
                         ELSE <<"read", "decode", "remove">>

\* The file named on the command line, as it was when the command started
FileAtStart == fs0[cmd.file]

\* That file decodes to a container, none of whose chunks has the type named
\* on the command line
TypeAbsent ==
    /\ FileAtStart.exists
    /\ LET r == Png_try_from(FileAtStart.data)
       IN  /\ r.kind = "ok"
           /\ Len(r.png.chunks) > 0
           /\ \A i \in 1..Len(r.png.chunks) :
                 bytes(r.png.chunks[i].chunktype) # cmd.chunk_type

\* C9: encode and remove call fs::write at most once and only after every
\* earlier step has succeeded; when an earlier step fails (removal of an
\* absent type included) nothing is written and the disk is unchanged.
WriteOnlyAfterSuccess ==
    /\ writes <= 1
    /\ writes = 1 =>
          /\ cmd.op \in {"encode", "remove"}
          /\ SubSeq(steps, 1, Len(StepsBeforeWrite)) = StepsBeforeWrite
    /\ writes = 0 => fs = fs0
    /\ (outcome.kind \in {"err", "panic"} /\ outcome.step # "write") =>
          writes = 0 /\ fs = fs0
    /\ (cmd.op = "remove" /\ pc = "done" /\ TypeAbsent) =>
          /\ outcome = [kind |-> "err", step |-> "remove"]
          /\ writes = 0
          /\ fs = fs0

\* remove of a type the decoded file does not hold: an error, no write
WriteOnlyAfterSuccessWitness ==
    /\ cmd.op = "remove"
    /\ TypeAbsent
    /\ steps = <<"read", "decode">>
    /\ outcome = [kind |-> "err", step |-> "remove"]
    /\ writes = 0
    /\ fs = fs0

====
